---------------------------- MODULE Spec2Model ----------------------------
(*
  Model of src/main.py: the snooker in-play odds calculator.

  Numbers.  Python floats are IEEE binary64 values rounded to nearest, ties
  to even, after every operation.  The model keeps that arithmetic and bounds
  only the width of the significand: a float is a pair <<m, e>> standing for
  m * 2^e, and every operation rounds its exact result to Precision
  significant bits (binary64 has 53).  The exponent is unbounded; infinities
  and NaN do not occur for the inputs enumerated here.
*)
EXTENDS Integers, Sequences, FiniteSets, TLC

\* Significand width of the modelled floats (53 in CPython).
Precision == 5

\* ------------------------------------------------------------------------
\* Floating point
\* ------------------------------------------------------------------------

Abs(n) == IF n < 0 THEN -n ELSE n

Sgn(n) == IF n < 0 THEN -1 ELSE IF n = 0 THEN 0 ELSE 1

RECURSIVE BitLen(_)
BitLen(n) == IF n = 0 THEN 0 ELSE 1 + BitLen(n \div 2)

RECURSIVE Norm(_, _)
\* canonical form of m * 2^e: odd significand, or <<0, 0>> for zero
Norm(m, e) ==
    IF m = 0 THEN <<0, 0>>
    ELSE IF m % 2 = 0 THEN Norm(m \div 2, e + 1)
    ELSE <<m, e>>

\* m * 2^e rounded to Precision bits, round-half-to-even
RoundME(m, e) ==
    LET a == Abs(m)
        s == BitLen(a) - Precision
    IN  IF s <= 0 THEN Norm(m, e)
        ELSE LET q  == a \div (2^s)
                 r  == a % (2^s)
                 h  == 2^(s - 1)
                 up == (r > h) \/ (r = h /\ q % 2 = 1)
                 q2 == IF up THEN q + 1 ELSE q
             IN  Norm(Sgn(m) * q2, e + s)

Zero == <<0, 0>>
One  == <<1, 0>>
Half == <<1, -1>>

\* position of the leading bit
Top(x) == x[2] + BitLen(Abs(x[1]))

\* three-way comparison of two floats (exact)
Cmp(x, y) ==
    LET sx == Sgn(x[1])
        sy == Sgn(y[1])
    IN  IF sx # sy THEN (IF sx < sy THEN -1 ELSE 1)
        ELSE IF sx = 0 THEN 0
        ELSE IF Top(x) # Top(y)
             THEN (IF Top(x) < Top(y) THEN -sx ELSE sx)
        ELSE LET e0 == IF x[2] < y[2] THEN x[2] ELSE y[2]
                 ax == x[1] * 2^(x[2] - e0)
                 ay == y[1] * 2^(y[2] - e0)
             IN  IF ax < ay THEN -1 ELSE IF ax = ay THEN 0 ELSE 1

Lt(x, y) == Cmp(x, y) < 0
Le(x, y) == Cmp(x, y) <= 0
Gt(x, y) == Cmp(x, y) > 0
Ge(x, y) == Cmp(x, y) >= 0

Neg(x) == <<-x[1], x[2]>>

\* x + y, correctly rounded.  When the operands are further apart than the
\* significand can span, the smaller one is below half an ulp of the larger.
FAdd(x, y) ==
    IF x[1] = 0 THEN y
    ELSE IF y[1] = 0 THEN x
    ELSE LET e0 == IF x[2] < y[2] THEN x[2] ELSE y[2]
             e1 == IF x[2] < y[2] THEN y[2] ELSE x[2]
         IN  IF e1 - e0 > 2 * Precision + 3
             THEN (IF x[2] > y[2] THEN x ELSE y)
             ELSE RoundME(x[1] * 2^(x[2] - e0) + y[1] * 2^(y[2] - e0), e0)

FSub(x, y) == FAdd(x, Neg(y))

FMul(x, y) == RoundME(x[1] * y[1], x[2] + y[2])

RECURSIVE TwoAdic(_)
\* number of trailing zero bits of d > 0
TwoAdic(d) == IF d % 2 = 0 THEN 1 + TwoAdic(d \div 2) ELSE 0

\* (n * 2^e) / d for integers n, d with d > 0, correctly rounded: the
\* quotient is taken with at least Precision + 2 bits and a sticky bit
RoundQuot(n, d, e) ==
    LET t  == TwoAdic(d)
        d1 == d \div (2^t)
        k0 == Precision + 3 + BitLen(d1) - BitLen(Abs(n))
        k  == IF k0 > 0 THEN k0 ELSE 0
        a  == Abs(n) * 2^k
        q  == a \div d1
        st == IF a % d1 = 0 THEN 0 ELSE 1
    IN  RoundME(Sgn(n) * (2 * q + st), e - t - k - 1)

\* x / y for y # 0
FDiv(x, y) == RoundQuot(x[1] * Sgn(y[1]), Abs(y[1]), x[2] - y[2])

\* the float nearest to the integer n, and to the decimal n / d
FromInt(n) == RoundME(n, 0)
FromRat(n, d) == RoundQuot(n, d, 0)

\* floor of a float, as an integer
Floor(x) ==
    IF x[2] >= 0 THEN x[1] * 2^(x[2])
    ELSE IF -x[2] > 30 THEN (IF x[1] < 0 THEN -1 ELSE 0)
    ELSE x[1] \div 2^(-x[2])

\* int(x): truncation toward zero
Trunc(x) == IF x[1] < 0 THEN -Floor(Neg(x)) ELSE Floor(x)

\* round(x): nearest integer, ties to even
PyRound(x) ==
    IF x[2] >= 0 THEN x[1] * 2^(x[2])
    ELSE IF -x[2] > 30 THEN 0
    ELSE LET d  == 2^(-x[2])
             q  == x[1] \div d
             r  == x[1] % d
             up == (2 * r > d) \/ (2 * r = d /\ q % 2 = 1)
         IN  IF up THEN q + 1 ELSE q

\* Python's max(a, b) and min(a, b): the first argument unless the second
\* is strictly larger (smaller)
PyMax(a, b) == IF Gt(b, a) THEN b ELSE a
PyMin(a, b) == IF Lt(b, a) THEN b ELSE a


\* ------------------------------------------------------------------------
\* math helpers
\* ------------------------------------------------------------------------

\* clip without its upper bound
clipNoUpper(x, lo, hi) == PyMax(lo, x)

clip(x, lo, hi) == PyMax(lo, PyMin(hi, x))

\* ------------------------------------------------------------------------
\* DP race model
\* ------------------------------------------------------------------------

\* the memo argument: None, or a dict from (a, b) to a float
None == [none |-> TRUE]
Dict(d) == [none |-> FALSE, d |-> d]
EmptyMemo == << >>

VARIABLES
    call,     \* arguments of the running top-level call of match_win_prob
    stack,    \* activation records of match_win_prob, innermost last
    memo,     \* the dict the activations share
    ret,      \* value handed back by the last return
    ncalls,   \* recursive calls made since the top-level call began
    nwrites,  \* memo assignments made since the top-level call began
    nhits,    \* returns taken at line 23 since the top-level call began
    status    \* "idle" | "running" | "done"

mwpVars == <<call, stack, memo, ret, ncalls, nwrites, nhits, status>>

\* line 22 with > for >=
LostStrict(b, target) == b > target

\* line 21: a >= target, and line 22: b >= target
Won(a, target) == a >= target
Lost(b, target) == b >= target

\* line 19 with the dict of the previous call kept, as a mutable default
\* argument (memo={}) would keep it
InitMemoShared(arg) == IF arg.none THEN memo ELSE arg.d

\* line 19: if memo is None: memo = {}
InitMemo(arg) == IF arg.none THEN EmptyMemo ELSE arg.d

\* line 24 with the two recursive results exchanged
BlendSwapped(p, f1, f2) == FAdd(FMul(p, f2), FMul(FSub(One, p), f1))

\* the two-term update of line 24, in Python's evaluation order
Blend(p, f1, f2) == FAdd(FMul(p, f1), FMul(FSub(One, p), f2))

RECURSIVE match_win_prob(_, _, _, _, _)
\* the function as a whole: <<returned value, memo afterwards>>
match_win_prob(p, a, b, target, memoArg) ==
    LET m   == InitMemo(memoArg)
        key == <<a, b>>
    IN  IF Won(a, target) THEN <<One, m>>
        ELSE IF Lost(b, target) THEN <<Zero, m>>
        ELSE IF key \in DOMAIN m THEN <<m[key], m>>
        ELSE LET r1 == match_win_prob(p, a + 1, b, target, Dict(m))
                 r2 == match_win_prob(p, a, b + 1, target, Dict(r1[2]))
                 v  == Blend(p, r1[1], r2[1])
             IN  <<v, (key :> v) @@ r2[2]>>


\* the same recurrence evaluated directly, without a memo table
RECURSIVE DirectRecurrence(_, _, _, _)
DirectRecurrence(p, a, b, target) ==
    IF Won(a, target) THEN One
    ELSE IF Lost(b, target) THEN Zero
    ELSE Blend(p, DirectRecurrence(p, a + 1, b, target),
                  DirectRecurrence(p, a, b + 1, target))

\* ---- bounds of the enumerated inputs ----

\* race targets 1 .. MaxTarget; scores 0 .. MaxTarget + 1 (past the target)
MaxTarget == 2

\* binades below 1 from which per-frame probabilities are drawn
GridOctaves == 2

Targets == 1 .. MaxTarget
Scores  == 0 .. (MaxTarget + 1)

\* every float of the modelled width in [2^-GridOctaves, 1), and 0 and 1
ProbGrid ==
    {Zero, One} \cup
    {Norm(m, -Precision - k) : m \in (2^(Precision - 1)) .. (2^Precision - 1),
                               k \in 0 .. (GridOctaves - 1)}

\* ---- match_win_prob, one step of the interpreter at a time ----

NoRet == <<>>

Frame(a, b) == [a |-> a, b |-> b, pc |-> "enter", t1 |-> Zero]

TopFrame == stack[Len(stack)]

\* a second callee that repeats its caller's score
SecondCalleeSame(fr) == Frame(fr.a, fr.b)

\* the activations line 24 creates: (a+1, b) first, (a, b+1) second
FirstCallee(fr) == Frame(fr.a + 1, fr.b)
SecondCallee(fr) == Frame(fr.a, fr.b + 1)

Pop == SubSeq(stack, 1, Len(stack) - 1)

Return(v, m) ==
    /\ ret' = v
    /\ memo' = m
    /\ stack' = Pop
    /\ status' = IF Len(stack) = 1 THEN "done" ELSE "running"

\* a top-level call, match_win_prob(p, a, b, target), up to line 19; the
\* recursive activations are handed the caller's dict and keep it
Call(p, a, b, target) ==
    /\ status \in {"idle", "done"}
    /\ call' = [p |-> p, a |-> a, b |-> b, target |-> target]
    /\ stack' = <<Frame(a, b)>>
    /\ memo' = InitMemo(None)
    /\ ret' = NoRet
    /\ ncalls' = 0
    /\ nwrites' = 0
    /\ nhits' = 0
    /\ status' = "running"

\* line 21
ReturnWon ==
    /\ status = "running"
    /\ TopFrame.pc = "enter"
    /\ Won(TopFrame.a, call.target)
    /\ Return(One, memo)
    /\ UNCHANGED <<call, ncalls, nwrites, nhits>>

\* line 22
ReturnLost ==
    /\ status = "running"
    /\ TopFrame.pc = "enter"
    /\ ~Won(TopFrame.a, call.target)
    /\ Lost(TopFrame.b, call.target)
    /\ Return(Zero, memo)
    /\ UNCHANGED <<call, ncalls, nwrites, nhits>>

\* line 23
MemoHit ==
    /\ status = "running"
    /\ TopFrame.pc = "enter"
    /\ ~Won(TopFrame.a, call.target)
    /\ ~Lost(TopFrame.b, call.target)
    /\ <<TopFrame.a, TopFrame.b>> \in DOMAIN memo
    /\ Return(memo[<<TopFrame.a, TopFrame.b>>], memo)
    /\ nhits' = nhits + 1
    /\ UNCHANGED <<call, ncalls, nwrites>>

\* line 24, first recursive call: match_win_prob(p, a+1, b, target, memo)
Recurse1 ==
    /\ status = "running"
    /\ TopFrame.pc = "enter"
    /\ ~Won(TopFrame.a, call.target)
    /\ ~Lost(TopFrame.b, call.target)
    /\ <<TopFrame.a, TopFrame.b>> \notin DOMAIN memo
    /\ stack' = Append([stack EXCEPT ![Len(stack)].pc = "wait1"],
                       FirstCallee(TopFrame))
    /\ ncalls' = ncalls + 1
    /\ UNCHANGED <<call, memo, ret, nwrites, nhits, status>>

\* line 24, p * (first result), then the second recursive call:
\* match_win_prob(p, a, b+1, target, memo)
Recurse2 ==
    /\ status = "running"
    /\ TopFrame.pc = "wait1"
    /\ \E t1 \in {FMul(call.p, ret)} :
          stack' = Append([stack EXCEPT ![Len(stack)].pc = "wait2",
                                        ![Len(stack)].t1 = t1],
                          SecondCallee(TopFrame))
    /\ ncalls' = ncalls + 1
    /\ UNCHANGED <<call, memo, ret, nwrites, nhits, status>>

\* line 24: 1 - p, its product with the second result, the sum, and the
\* assignment memo[key] = ...; line 25
StoreReturn ==
    /\ status = "running"
    /\ TopFrame.pc = "wait2"
    /\ \E q \in {FSub(One, call.p)} :
          \E t2 \in {FMul(q, ret)} :
             \E v \in {FAdd(TopFrame.t1, t2)} :
                Return(v, (<<TopFrame.a, TopFrame.b>> :> v) @@ memo)
    /\ nwrites' = nwrites + 1
    /\ UNCHANGED <<call, ncalls, nhits>>

Step == ReturnWon \/ ReturnLost \/ MemoHit \/ Recurse1 \/ Recurse2 \/ StoreReturn


\* ------------------------------------------------------------------------
\* modelling
\* ------------------------------------------------------------------------

IntMax(a, b) == IF b > a THEN b ELSE a

\* float literals of the source
C_0_5   == FromRat(1, 2)
C_100   == FromInt(100)
C_3     == FromInt(3)
C_1em9  == FromRat(1, 1000000000)

season_strength(points_scored, matches_played, win_rate, avg_shot_time, b50, b100, w_wr, w_ppm, w_b50, w_b100, w_shot, scale) ==
    LET mp     == FromInt(IntMax(1, PyRound(matches_played)))
        ppm    == FDiv(points_scored, mp)
        r50    == FDiv(b50, mp)
        r100   == FDiv(b100, mp)
        ppm_c  == FromInt(300)
        r50_c  == One
        r100_c == FromRat(15, 100)
        shot_c == FromInt(30)
        t_wr   == FMul(w_wr, FSub(FDiv(win_rate, C_100), C_0_5))
        t_ppm  == FMul(w_ppm, FDiv(FSub(ppm, ppm_c), ppm_c))
        t_b50  == FMul(w_b50, FDiv(FSub(r50, r50_c), PyMax(FromRat(3, 10), r50_c)))
        t_b100 == FMul(w_b100, FDiv(FSub(r100, r100_c), PyMax(FromRat(5, 100), r100_c)))
        t_shot == FMul(w_shot, FDiv(FSub(shot_c, avg_shot_time), shot_c))
        idx    == FAdd(FAdd(FAdd(FAdd(t_wr, t_ppm), t_b50), t_b100), t_shot)
    IN  FMul(scale, idx)

\* z without the clip of line 51
zUnclipped(diff, sd) == FDiv(diff, PyMax(sd, C_1em9))

\* the nested helper z(diff, sd) of live_boost
z(diff, sd) == clip(FDiv(diff, PyMax(sd, C_1em9)), Neg(C_3), C_3)

\* w_rel of live_boost; k_shots is an int
Reliability(shotsA, shotsB, k_shots) ==
    LET shots_tot == PyMax(One, FAdd(shotsA, shotsB))
    IN  clip(FDiv(shots_tot, FromInt(IntMax(1, k_shots))), Zero, One)

\* lines 56-63 and the eight z(...) of lines 66-73
ZScores(s, sd) ==
    LET pot_diff    == FDiv(FSub(s.potA, s.potB), C_100)
        st_diff     == FSub(s.stB, s.stA)
        b50_diff    == FSub(s.b50A, s.b50B)
        b100_diff   == FSub(s.b100A, s.b100B)
        hb_diff     == FDiv(FSub(s.hbA, s.hbB), C_100)
        pts_share   == FDiv(s.ptsA, PyMax(C_1em9, FAdd(s.ptsA, s.ptsB)))
        shots_share == FDiv(s.shotsA, PyMax(C_1em9, FAdd(s.shotsA, s.shotsB)))
        tot_share   == FDiv(s.totA, C_100)
    IN  [pot   |-> z(pot_diff, FDiv(sd.pot, C_100)),
         st    |-> z(st_diff, sd.st),
         b50   |-> z(b50_diff, sd.b50),
         b100  |-> z(b100_diff, sd.b100),
         hb    |-> z(hb_diff, FDiv(sd.hb, C_100)),
         pts   |-> z(FSub(pts_share, C_0_5), sd.pts_share),
         shots |-> z(FSub(shots_share, C_0_5), sd.shots_share),
         tot   |-> z(FSub(tot_share, C_0_5), sd.tot_share)]

\* S of lines 65-74: the eight products added left to right
WeightedSum(w, zs) ==
    FAdd(FAdd(FAdd(FAdd(FAdd(FAdd(FAdd(
        FMul(w.pot,   zs.pot),
        FMul(w.st,    zs.st)),
        FMul(w.b50,   zs.b50)),
        FMul(w.b100,  zs.b100)),
        FMul(w.hb,    zs.hb)),
        FMul(w.pts,   zs.pts)),
        FMul(w.shots, zs.shots)),
        FMul(w.tot,   zs.tot))

\* live_boost takes its 34 arguments as three records: the live statistics
\* s, the weights w and the standard deviations sd
live_boost(s, w, sd, k_shots, beta) ==
    LET w_rel == Reliability(s.shotsA, s.shotsB, k_shots)
        S     == WeightedSum(w, ZScores(s, sd))
    IN  FMul(FMul(beta, w_rel), S)

\* ---- math.exp and inv_logit ----

\* math.exp raises OverflowError above ln(DBL_MAX) = 709.78271...; no float
\* of the modelled width lies between ExpMaxNum / 32 and that limit
ExpMaxNum == 22713

ExpOverflows(x) == Gt(x, Norm(ExpMaxNum, -5))

\* e^x as 2^k * (1 + f) with k + f = x * log2(e): exact at 0, positive,
\* non-decreasing, within 6.2 per cent of e^x
exp(x) ==
    LET t == FMul(x, FromRat(14427, 10000))
        k == Floor(t)
        f == FSub(t, Norm(k, 0))
        m == FAdd(One, f)
    IN  Norm(m[1], m[2] + k)

\* <<exception, value>>
inv_logit(zz) ==
    IF ExpOverflows(Neg(zz)) THEN <<"OverflowError", Zero>>
    ELSE <<"none", FDiv(One, FAdd(One, exp(Neg(zz))))>>


\* ------------------------------------------------------------------------
\* text: entry contents are strings; formatted texts are tuples
\* ------------------------------------------------------------------------

\* the decimal strings typed into the form, as numerator and denominator
Literal ==
    ("0" :> <<0, 1>>) @@ ("1" :> <<1, 1>>) @@ ("2" :> <<2, 1>>) @@
    ("3" :> <<3, 1>>) @@ ("5" :> <<5, 1>>) @@ ("-1" :> <<-1, 1>>) @@
    ("10" :> <<10, 1>>) @@ ("12" :> <<12, 1>>) @@ ("20" :> <<20, 1>>) @@
    ("25" :> <<25, 1>>) @@ ("32" :> <<32, 1>>) @@ ("40" :> <<40, 1>>) @@
    ("45" :> <<45, 1>>) @@ ("50" :> <<50, 1>>) @@ ("55" :> <<55, 1>>) @@
    ("60" :> <<60, 1>>) @@ ("100" :> <<100, 1>>) @@ ("2500" :> <<2500, 1>>) @@
    ("3000" :> <<3000, 1>>) @@ ("10000000" :> <<10000000, 1>>) @@
    ("1.5" :> <<15, 10>>) @@ ("2.10" :> <<210, 100>>) @@ ("7.9" :> <<79, 10>>)

\* str.strip() on the strings that occur
Strip(s) ==
    CASE s = " "   -> ""
      [] s = " 3 " -> "3"
      [] OTHER     -> s

\* float(s): <<exception, value>>
ParseFloat(s) ==
    IF s \in DOMAIN Literal
    THEN <<"none", FromRat(Literal[s][1], Literal[s][2])>>
    ELSE <<"ValueError", Zero>>

\* App._f; the value is an int when to_int, else a float (or the default d)
_f(var, d, required, to_int) ==
    LET s == Strip(var)
    IN  IF s = ""
        THEN (IF required THEN <<"ValueError", d>> ELSE <<"none", d>>)
        ELSE LET r == ParseFloat(s)
             IN  IF r[1] # "none" THEN r
                 ELSE IF to_int THEN <<"none", Trunc(r[2])>>
                 ELSE r

\* format(x, ".<nd>f"): <<sign, integer part, fraction digits, nd>>, the
\* exact value rounded half-to-even at nd decimals
Fmt(x, nd) ==
    LET a  == Abs(x[1])
        sg == IF x[1] < 0 THEN -1 ELSE 1
    IN  IF x[2] >= 0 THEN <<sg, a * 2^(x[2]), 0, nd>>
        ELSE IF -x[2] > 30 THEN <<sg, 0, 0, nd>>
        ELSE LET d   == 2^(-x[2])
                 ip  == a \div d
                 sc  == (a % d) * 10^nd
                 q   == sc \div d
                 rem == sc % d
                 up  == (rem > d - rem) \/ (rem = d - rem /\ q % 2 = 1)
                 q2  == IF up THEN q + 1 ELSE q
             IN  IF q2 = 10^nd THEN <<sg, ip + 1, 0, nd>>
                 ELSE <<sg, ip, q2, nd>>

Blank == <<>>

\* float(text) of a formatted text: <<exception, value>>
ParseText(t) ==
    IF t = Blank THEN <<"ValueError", Zero>>
    ELSE <<"none", FromRat(t[1] * (t[2] * 10^(t[4]) + t[3]), 10^(t[4]))>>


\* ------------------------------------------------------------------------
\* the application
\* ------------------------------------------------------------------------

VARIABLES
    entries,    \* text of every entry field (tk.StringVar), by attribute name
    cfg,        \* sliders, cap toggle, pmin and pmax (tk.DoubleVar / BooleanVar)
    out,        \* the five output texts
    value_txt,  \* text under "Compare Value"
    hint,       \* the hint line
    ev          \* the event handled last: which handler ran, the exception it
                \* let escape, and the locals of update_all at its call of
                \* match_win_prob (pmin, pmax: the bounds of line 346)

appVars == <<entries, cfg, out, value_txt, hint, ev>>

SeasonFields == {"A_points", "A_mp", "A_wr", "A_st", "A_b50", "A_b100",
                 "B_points", "B_mp", "B_wr", "B_st", "B_b50", "B_b100"}
LiveFields == {"A_pot", "A_stL", "A_b50L", "A_b100L", "A_hb", "A_pts", "A_shots", "A_tot",
               "B_pot", "B_stL", "B_b50L", "B_b100L", "B_hb", "B_pts", "B_shots", "B_tot"}
ScoreFields == {"bestof", "a_won", "b_won"}
BookFields == {"bookA", "bookB"}
Fields == SeasonFields \cup LiveFields \cup ScoreFields \cup BookFields

\* the fields update_all reads with required=True
RequiredFields ==
    {"A_points", "A_mp", "A_wr", "A_st", "B_points", "B_mp", "B_wr", "B_st",
     "A_pot", "B_pot", "A_stL", "B_stL", "A_pts", "B_pts", "A_shots", "B_shots",
     "bestof", "a_won", "b_won"}

\* the slider and entry defaults set in _season_inputs and _live_inputs;
\* self.w_b50 and self.w_b100 are assigned twice and end up as the live sliders
DefaultCfg ==
    [w_wr |-> FromRat(82, 100), w_ppm |-> FromRat(70, 100),
     w_b50 |-> FromRat(34, 100), w_b100 |-> FromRat(12, 100),
     w_shot |-> FromRat(46, 100), season_scale |-> FromRat(72, 100),
     w_pot |-> FromRat(52, 100), w_st |-> FromRat(44, 100),
     w_hb |-> FromRat(20, 100), w_pts |-> FromRat(68, 100),
     w_shots |-> FromRat(43, 100), w_tot |-> FromRat(44, 100),
     sd_pot |-> FromInt(8), sd_st |-> FromRat(22, 10),
     sd_b50 |-> FromRat(18, 10), sd_b100 |-> One, sd_hb |-> FromInt(30),
     sd_ptsS |-> FromRat(18, 100), sd_shS |-> FromRat(18, 100),
     sd_totS |-> FromRat(16, 100),
     k_shots |-> FromInt(150), beta |-> FromRat(25, 100),
     lambda_shrink |-> FromRat(70, 100), cap_on |-> TRUE,
     pmin |-> FromRat(45, 100), pmax |-> FromRat(66, 100)]

HintInit   == "Fill season + live + score, then click Update."
HintPrompt == "Fill required Season + Live + Score fields and click Update."

BlankOut == [p_frame |-> Blank, o_frame |-> Blank, p_match |-> Blank,
             oA |-> Blank, oB |-> Blank]

\* ---- update_all ----

\* the shrink blending away from 0.5 instead of toward it
ShrinkInverted(lambda_shrink, p_frame_raw) ==
    LET lam == clip(lambda_shrink, Zero, One)
    IN  FAdd(p_frame_raw, FMul(lam, FSub(C_0_5, p_frame_raw)))

\* lines 338-339
Shrink(lambda_shrink, p_frame_raw) ==
    LET lam == clip(lambda_shrink, Zero, One)
    IN  FAdd(C_0_5, FMul(lam, FSub(p_frame_raw, C_0_5)))

\* lines 343-345: <<pmin, pmax>> as used by the clip of line 346
CapBounds(pmin0, pmax0) ==
    LET pmin == clip(pmin0, Zero, C_0_5)
        pmax == clip(pmax0, C_0_5, One)
    IN  IF Gt(pmin, pmax) THEN <<pmax, pmin>> ELSE <<pmin, pmax>>

\* lines 342-346
Cap(cap_on, pmin0, pmax0, p_frame) ==
    IF cap_on
    THEN clip(p_frame, CapBounds(pmin0, pmax0)[1], CapBounds(pmin0, pmax0)[2])
    ELSE p_frame

\* the reads of lines 294-331, in order, as <<exception, value>> pairs
SeasonReads(e, pl) ==
    [points |-> _f(e[pl \o "_points"], Zero, TRUE, FALSE),
     mp     |-> _f(e[pl \o "_mp"], Zero, TRUE, FALSE),
     wr     |-> _f(e[pl \o "_wr"], Zero, TRUE, FALSE),
     st     |-> _f(e[pl \o "_st"], Zero, TRUE, FALSE),
     b50    |-> _f(e[pl \o "_b50"], Zero, FALSE, FALSE),
     b100   |-> _f(e[pl \o "_b100"], Zero, FALSE, FALSE)]

LiveReads(e) ==
    [potA   |-> _f(e["A_pot"], Zero, TRUE, FALSE),
     potB   |-> _f(e["B_pot"], Zero, TRUE, FALSE),
     stA    |-> _f(e["A_stL"], Zero, TRUE, FALSE),
     stB    |-> _f(e["B_stL"], Zero, TRUE, FALSE),
     b50A   |-> _f(e["A_b50L"], Zero, FALSE, FALSE),
     b50B   |-> _f(e["B_b50L"], Zero, FALSE, FALSE),
     b100A  |-> _f(e["A_b100L"], Zero, FALSE, FALSE),
     b100B  |-> _f(e["B_b100L"], Zero, FALSE, FALSE),
     hbA    |-> _f(e["A_hb"], Zero, FALSE, FALSE),
     hbB    |-> _f(e["B_hb"], Zero, FALSE, FALSE),
     ptsA   |-> _f(e["A_pts"], Zero, TRUE, FALSE),
     ptsB   |-> _f(e["B_pts"], Zero, TRUE, FALSE),
     shotsA |-> _f(e["A_shots"], Zero, TRUE, FALSE),
     shotsB |-> _f(e["B_shots"], Zero, TRUE, FALSE),
     totA   |-> _f(e["A_tot"], FromInt(50), FALSE, FALSE),
     totB   |-> _f(e["B_tot"], FromInt(50), FALSE, FALSE)]

ScoreReads(e) ==
    [bestof |-> _f(e["bestof"], 0, TRUE, TRUE),
     a_won  |-> _f(e["a_won"], 0, TRUE, TRUE),
     b_won  |-> _f(e["b_won"], 0, TRUE, TRUE)]

Raises(reads) == \E k \in DOMAIN reads : reads[k][1] # "none"

Values(reads) == [k \in DOMAIN reads |-> reads[k][2]]

SeasonOf(r, c) ==
    season_strength(r.points, r.mp, r.wr, r.st, r.b50, r.b100,
                    c.w_wr, c.w_ppm, c.w_b50, c.w_b100, c.w_shot, c.season_scale)

BoostOf(r, c) ==
    live_boost(r,
               [pot |-> c.w_pot, st |-> c.w_st, b50 |-> c.w_b50, b100 |-> c.w_b100,
                hb |-> c.w_hb, pts |-> c.w_pts, shots |-> c.w_shots, tot |-> c.w_tot],
               [pot |-> c.sd_pot, st |-> c.sd_st, b50 |-> c.sd_b50, b100 |-> c.sd_b100,
                hb |-> c.sd_hb, pts_share |-> c.sd_ptsS, shots_share |-> c.sd_shS,
                tot_share |-> c.sd_totS],
               Trunc(c.k_shots), c.beta)

NoLocals == [called |-> FALSE, p_frame_raw |-> Zero, pmin |-> Zero, pmax |-> Zero,
             p_frame |-> Zero, target |-> 0, a_won |-> 0, b_won |-> 0,
             p_match |-> Zero]

\* lines 356-360
Outputs(p_frame, p_match) ==
    [p_frame |-> Fmt(p_frame, 3),
     o_frame |-> Fmt(FDiv(One, PyMax(C_1em9, p_frame)), 2),
     p_match |-> Fmt(p_match, 3),
     oA      |-> Fmt(FDiv(One, PyMax(C_1em9, p_match)), 2),
     oB      |-> Fmt(FDiv(One, PyMax(C_1em9, FSub(One, p_match))), 2)]

\* lines 356-362: the try block ran to its end
Finish(loc) ==
    /\ out' = Outputs(loc.p_frame, loc.p_match)
    /\ value_txt' = Blank
    /\ hint' = ""
    /\ ev' = [op |-> "update_all", exc |-> "none", loc |-> loc]

\* lines 364-368: the try block raised ValueError
ExceptValueError ==
    /\ out' = BlankOut
    /\ value_txt' = Blank
    /\ hint' = HintPrompt
    /\ ev' = [op |-> "update_all", exc |-> "none", loc |-> NoLocals]

\* an exception line 364 does not catch leaves the handler, the texts as
\* they were
Escapes(exc) ==
    /\ ev' = [op |-> "update_all", exc |-> exc, loc |-> NoLocals]
    /\ UNCHANGED <<out, value_txt, hint>>

\* lines 337-353, from the raw per-frame probability on
Overlay(p_frame_raw, rs) ==
    \E bounds \in {IF cfg.cap_on THEN CapBounds(cfg.pmin, cfg.pmax) ELSE <<Zero, Zero>>} :
    \E p_frame \in {Cap(cfg.cap_on, cfg.pmin, cfg.pmax,
                        Shrink(cfg.lambda_shrink, p_frame_raw))} :
       IF Raises(rs) THEN ExceptValueError
       ELSE
       \E target \in {(rs.bestof[2] \div 2) + 1} :
       \E p_match \in {match_win_prob(p_frame, rs.a_won[2], rs.b_won[2], target, None)[1]} :
          Finish([called |-> TRUE, p_frame_raw |-> p_frame_raw,
                  pmin |-> bounds[1], pmax |-> bounds[2],
                  p_frame |-> p_frame, target |-> target,
                  a_won |-> rs.a_won[2], b_won |-> rs.b_won[2],
                  p_match |-> p_match])

\* the Update button: App.update_all, statement by statement.  Only
\* ValueError is caught (line 364).
update_all ==
    /\ \E ra \in {SeasonReads(entries, "A")}, rb \in {SeasonReads(entries, "B")},
          rl \in {LiveReads(entries)}, rs \in {ScoreReads(entries)} :
          IF Raises(ra) \/ Raises(rb) \/ Raises(rl) THEN ExceptValueError
          ELSE
          \E SA \in {SeasonOf(Values(ra), cfg)}, SB \in {SeasonOf(Values(rb), cfg)},
             boost \in {BoostOf(Values(rl), cfg)} :
          \E raw \in {inv_logit(FAdd(FSub(SA, SB), boost))} :
             IF raw[1] # "none" THEN Escapes(raw[1])
             ELSE Overlay(raw[2], rs)
    /\ UNCHANGED <<entries, cfg>>

\* ---- compare_value ----

\* the nested helper edge(msg_label, book_str, fair)
edge(msg_label, book_str, fair) ==
    LET s == Strip(book_str)
        b == ParseFloat(s)
        e == FMul(FDiv(FSub(b[2], fair), fair), C_100)
        flag == IF Gt(e, FromInt(2)) THEN "VALUE"
                ELSE IF Ge(e, FromInt(-2)) /\ Le(e, FromInt(2)) THEN "MARGINAL"
                ELSE "NO VALUE"
    IN  IF s = "" THEN <<msg_label, "-">>
        ELSE IF b[1] # "none" THEN <<msg_label, "invalid odds">>
        ELSE <<msg_label, Fmt(fair, 2), Fmt(b[2], 2), Fmt(e, 1), flag>>

\* the Compare Value button: App.compare_value
compare_value ==
    LET pm == ParseText(out.p_match)
        fairA == FDiv(One, PyMax(C_1em9, pm[2]))
        fairB == FDiv(One, PyMax(C_1em9, FSub(One, pm[2])))
    IN  /\ value_txt' = IF pm[1] # "none" THEN <<"Click Update first.">>
                        ELSE <<edge("Player A", entries["bookA"], fairA),
                               edge("Player B", entries["bookB"], fairB)>>
        /\ ev' = [op |-> "compare_value", exc |-> "none", loc |-> NoLocals]
        /\ UNCHANGED <<entries, cfg, out, hint>>

\* ---- the user ----

\* the user retypes the form between two clicks
EditForm(form) ==
    /\ form # entries
    /\ entries' = form
    /\ ev' = [op |-> "user", exc |-> "none", loc |-> NoLocals]
    /\ UNCHANGED <<cfg, out, value_txt, hint>>

\* the user moves the realism controls between two clicks
Configure(c) ==
    /\ c # cfg
    /\ cfg' = c
    /\ ev' = [op |-> "user", exc |-> "none", loc |-> NoLocals]
    /\ UNCHANGED <<entries, out, value_txt, hint>>

\* App.__init__
AppInit ==
    /\ entries = [f \in Fields |-> ""]
    /\ cfg = DefaultCfg
    /\ out = BlankOut
    /\ value_txt = Blank
    /\ hint = HintInit
    /\ ev = [op |-> "init", exc |-> "none", loc |-> NoLocals]


\* ------------------------------------------------------------------------
\* the forms and settings the user is given to choose from
\* ------------------------------------------------------------------------

BlankForm == [f \in Fields |-> ""]

\* a filled form: player A the stronger side, best of 3, level at 0-0
BaseForm ==
    ("A_points" :> "3000") @@ ("A_mp" :> "10") @@ ("A_wr" :> "60") @@
    ("A_st" :> "25") @@ ("A_b50" :> "20") @@ ("A_b100" :> "5") @@
    ("B_points" :> "2500") @@ ("B_mp" :> "10") @@ ("B_wr" :> "45") @@
    ("B_st" :> "32") @@ ("B_b50" :> "12") @@ ("B_b100" :> "2") @@
    ("A_pot" :> "60") @@ ("A_stL" :> "20") @@ ("A_b50L" :> "1") @@
    ("A_b100L" :> "0") @@ ("A_hb" :> "55") @@ ("A_pts" :> "100") @@
    ("A_shots" :> "60") @@ ("A_tot" :> "55") @@
    ("B_pot" :> "50") @@ ("B_stL" :> "25") @@ ("B_b50L" :> "0") @@
    ("B_b100L" :> "0") @@ ("B_hb" :> "32") @@ ("B_pts" :> "60") @@
    ("B_shots" :> "40") @@ ("B_tot" :> "45") @@
    ("bestof" :> "3") @@ ("a_won" :> "0") @@ ("b_won" :> "0") @@
    ("bookA" :> "") @@ ("bookB" :> "")

\* the same form with the players exchanged: player A the weaker side
SwappedForm ==
    [f \in Fields |->
        CASE f \in ScoreFields \cup BookFields -> BaseForm[f]
          [] f \in {"A_points"} -> BaseForm["B_points"]
          [] f \in {"B_points"} -> BaseForm["A_points"]
          [] f \in {"A_wr"} -> BaseForm["B_wr"]
          [] f \in {"B_wr"} -> BaseForm["A_wr"]
          [] f \in {"A_st"} -> BaseForm["B_st"]
          [] f \in {"B_st"} -> BaseForm["A_st"]
          [] f \in {"A_pot"} -> BaseForm["B_pot"]
          [] f \in {"B_pot"} -> BaseForm["A_pot"]
          [] f \in {"A_pts"} -> BaseForm["B_pts"]
          [] f \in {"B_pts"} -> BaseForm["A_pts"]
          [] OTHER -> BaseForm[f]]

\* forms whose season figures put the logit far from 0
HugeAForm == [BaseForm EXCEPT !["A_points"] = "10000000"]
HugeBForm == [BaseForm EXCEPT !["B_points"] = "10000000"]

\* no shots played yet
NoShotsForm == [BaseForm EXCEPT !["A_shots"] = "0", !["B_shots"] = "0"]

Scored(bo, a, b) == [BaseForm EXCEPT !["bestof"] = bo, !["a_won"] = a, !["b_won"] = b]

\* score lines, also decided and impossible ones
ScoreForms ==
    {Scored("1", "0", "0"), Scored("3", "1", "0"), Scored("3", "2", "0"),
     Scored("3", "0", "2"), Scored("3", "2", "2"), Scored(" 3 ", "0", "1"),
     Scored("7.9", "1", "-1"), Scored("5", "2", "2")}

BookForm == [BaseForm EXCEPT !["bookA"] = "2.10", !["bookB"] = "abc"]

\* the base form with one field emptied
OneFieldEmpty == {[BaseForm EXCEPT ![f] = ""] : f \in Fields \ BookFields}

\* the base form with one field blanked or made non-numeric
OneFieldBad ==
    {[BaseForm EXCEPT ![f] = t] :
        f \in {"A_points", "A_b50", "B_shots", "B_hb", "b_won"}, t \in {" ", "abc"}}

\* form-handling runs: many forms, two settings
FormsWide ==
    {BlankForm, BaseForm, HugeBForm, [HugeBForm EXCEPT !["bestof"] = ""], BookForm}
    \cup ScoreForms \cup OneFieldEmpty \cup OneFieldBad

SettingsNarrow == {DefaultCfg, [DefaultCfg EXCEPT !.cap_on = FALSE]}

\* realism runs: few forms, many settings
FormsNarrow == {BaseForm, SwappedForm, HugeAForm, NoShotsForm}

Shrinks == {Zero, FromRat(70, 100), One}

SettingsWide ==
    {[DefaultCfg EXCEPT !.lambda_shrink = l, !.pmin = lo, !.pmax = hi] :
        l \in Shrinks,
        lo \in {FromRat(-5, 10), FromRat(45, 100), FromRat(66, 100)},
        hi \in {FromRat(45, 100), FromRat(66, 100), FromRat(15, 10)}}
    \cup
    {[DefaultCfg EXCEPT !.lambda_shrink = l, !.cap_on = FALSE] : l \in Shrinks}

\* ------------------------------------------------------------------------
\* the functions on their own
\* ------------------------------------------------------------------------

VARIABLES
    fargs,   \* arguments handed to the function under evaluation
    fres     \* what it returned, NoRes before the call

fnVars == <<fargs, fres>>

NoArgs == [fn |-> "none"]
NoRes == <<>>

vars == <<call, stack, memo, ret, ncalls, nwrites, nhits, status,
          entries, cfg, out, value_txt, hint, ev, fargs, fres>>

\* match_win_prob at two per-frame probabilities p and q, same score and target
RaceArgs ==
    [fn : {"match_win_prob"}, p : ProbGrid, q : ProbGrid,
     a : Scores, b : Scores, target : Targets]

EvalRace ==
    /\ fargs.fn = "match_win_prob"
    /\ fres = NoRes
    /\ fres' = <<match_win_prob(fargs.p, fargs.a, fargs.b, fargs.target, None)[1],
                 match_win_prob(fargs.q, fargs.a, fargs.b, fargs.target, None)[1]>>
    /\ UNCHANGED fargs

\* live statistics, weights and deviations live_boost is evaluated on
LiveStats ==
    [potA : {FromInt(60)}, potB : {FromInt(50), FromInt(60)},
     stA : {FromInt(20)}, stB : {FromInt(20), FromInt(25)},
     b50A : {One}, b50B : {Zero}, b100A : {Zero}, b100B : {Zero},
     hbA : {FromInt(55)}, hbB : {FromInt(32)},
     ptsA : {Zero, FromInt(100)}, ptsB : {Zero, FromInt(60)},
     shotsA : {Zero, FromInt(60), FromInt(100)},
     shotsB : {Zero, FromInt(40), FromInt(100)},
     totA : {FromInt(50), FromInt(55)}, totB : {FromInt(45)}]

DefaultWeights ==
    [pot |-> DefaultCfg.w_pot, st |-> DefaultCfg.w_st, b50 |-> DefaultCfg.w_b50,
     b100 |-> DefaultCfg.w_b100, hb |-> DefaultCfg.w_hb, pts |-> DefaultCfg.w_pts,
     shots |-> DefaultCfg.w_shots, tot |-> DefaultCfg.w_tot]

DefaultSDs ==
    [pot |-> DefaultCfg.sd_pot, st |-> DefaultCfg.sd_st, b50 |-> DefaultCfg.sd_b50,
     b100 |-> DefaultCfg.sd_b100, hb |-> DefaultCfg.sd_hb,
     pts_share |-> DefaultCfg.sd_ptsS, shots_share |-> DefaultCfg.sd_shS,
     tot_share |-> DefaultCfg.sd_totS]

LiveWeights ==
    {DefaultWeights,
     [k \in DOMAIN DefaultWeights |-> Zero],
     [k \in DOMAIN DefaultWeights |-> FromInt(2)],
     [[k \in DOMAIN DefaultWeights |-> Zero] EXCEPT !.pot = FromRat(1, 10)]}

LiveSDs ==
    {DefaultSDs,
     [k \in DOMAIN DefaultSDs |-> Zero],
     [DefaultSDs EXCEPT !.pot = FromInt(-1), !.st = Zero]}

LiveArgs ==
    [fn : {"live_boost"}, s : LiveStats, w : LiveWeights, sd : LiveSDs,
     k_shots : {0, 1, 150}, beta : {Zero, FromRat(25, 100), One}]

EvalLive ==
    /\ fargs.fn = "live_boost"
    /\ fres = NoRes
    /\ fres' = live_boost(fargs.s, fargs.w, fargs.sd, fargs.k_shots, fargs.beta)
    /\ UNCHANGED fargs

\* ------------------------------------------------------------------------
\* specifications
\* ------------------------------------------------------------------------

MwpInit ==
    /\ call = [p |-> Zero, a |-> 0, b |-> 0, target |-> 1]
    /\ stack = <<>>
    /\ memo = EmptyMemo
    /\ ret = NoRet
    /\ ncalls = 0
    /\ nwrites = 0
    /\ nhits = 0
    /\ status = "idle"

FnIdle == fargs = NoArgs /\ fres = NoRes

\* (1) match_win_prob step by step, any sequence of top-level calls
InitMWP == MwpInit /\ AppInit /\ FnIdle

AnyCall == \E p \in ProbGrid, a \in Scores, b \in Scores, t \in Targets : Call(p, a, b, t)

NextMWP ==
    \/ AnyCall /\ UNCHANGED <<appVars, fnVars>>
    \/ ReturnWon /\ UNCHANGED <<appVars, fnVars>>
    \/ ReturnLost /\ UNCHANGED <<appVars, fnVars>>
    \/ MemoHit /\ UNCHANGED <<appVars, fnVars>>
    \/ Recurse1 /\ UNCHANGED <<appVars, fnVars>>
    \/ Recurse2 /\ UNCHANGED <<appVars, fnVars>>
    \/ StoreReturn /\ UNCHANGED <<appVars, fnVars>>

SpecMWP == InitMWP /\ [][NextMWP]_vars

\* (2) one top-level call run to completion: the interpreter keeps executing
\* the activation on top of the stack
FirstCall == status = "idle" /\ AnyCall

NextRun ==
    \/ FirstCall /\ UNCHANGED <<appVars, fnVars>>
    \/ ReturnWon /\ UNCHANGED <<appVars, fnVars>>
    \/ ReturnLost /\ UNCHANGED <<appVars, fnVars>>
    \/ MemoHit /\ UNCHANGED <<appVars, fnVars>>
    \/ Recurse1 /\ UNCHANGED <<appVars, fnVars>>
    \/ Recurse2 /\ UNCHANGED <<appVars, fnVars>>
    \/ StoreReturn /\ UNCHANGED <<appVars, fnVars>>

RunStep == Step /\ UNCHANGED <<appVars, fnVars>>

FairSpecMWP == InitMWP /\ [][NextRun]_vars /\ WF_vars(RunStep)

\* (3) match_win_prob as a function
InitRace == MwpInit /\ AppInit /\ fargs \in RaceArgs /\ fres = NoRes

NextRace == EvalRace /\ UNCHANGED <<mwpVars, appVars>>

SpecRace == InitRace /\ [][NextRace]_vars

\* (4) live_boost as a function
InitLive == MwpInit /\ AppInit /\ fargs \in LiveArgs /\ fres = NoRes

NextLive == EvalLive /\ UNCHANGED <<mwpVars, appVars>>

SpecLive == InitLive /\ [][NextLive]_vars

\* (5) the application, form handling
InitApp == MwpInit /\ AppInit /\ FnIdle

NextForm ==
    \/ update_all /\ UNCHANGED <<mwpVars, fnVars>>
    \/ compare_value /\ UNCHANGED <<mwpVars, fnVars>>
    \/ (\E form \in FormsWide : EditForm(form)) /\ UNCHANGED <<mwpVars, fnVars>>
    \/ (\E c \in SettingsNarrow : Configure(c)) /\ UNCHANGED <<mwpVars, fnVars>>

SpecForm == InitApp /\ [][NextForm]_vars

\* (6) the application, realism guards
NextRealism ==
    \/ update_all /\ UNCHANGED <<mwpVars, fnVars>>
    \/ compare_value /\ UNCHANGED <<mwpVars, fnVars>>
    \/ (\E form \in FormsNarrow : EditForm(form)) /\ UNCHANGED <<mwpVars, fnVars>>
    \/ (\E c \in SettingsWide : Configure(c)) /\ UNCHANGED <<mwpVars, fnVars>>

SpecRealism == InitApp /\ [][NextRealism]_vars


\* ------------------------------------------------------------------------
\* properties
\* ------------------------------------------------------------------------

Updated == ev.op = "update_all"
Passed == Updated /\ ev.exc = "none" /\ ev.loc.called

\* C1: live_boost returns exactly 0 whenever shotsA + shotsB = 0, whatever
\* the other statistics, weights, deviations, k_shots and beta.
C1_ZeroShotsZeroBoost ==
    (fres # NoRes /\ FAdd(fargs.s.shotsA, fargs.s.shotsB) = Zero) => fres = Zero

\* C2, as claimed: a top-level call returns 1.0 whenever a >= target and 0.0
\* whenever b >= target, with no recursive call and no memo write.
C2_TerminalAsClaimed ==
    status = "done" =>
        /\ call.a >= call.target => (ret = One /\ ncalls = 0 /\ nwrites = 0)
        /\ call.b >= call.target => (ret = Zero /\ ncalls = 0 /\ nwrites = 0)

\* C2, amended: a top-level call returns 1.0 whenever a >= target, and 0.0
\* whenever b >= target and a < target; in both cases it makes no recursive
\* call and leaves the memo empty.
C2_Terminal ==
    status = "done" =>
        /\ call.a >= call.target =>
              (ret = One /\ ncalls = 0 /\ nwrites = 0 /\ memo = EmptyMemo)
        /\ (call.b >= call.target /\ call.a < call.target) =>
              (ret = Zero /\ ncalls = 0 /\ nwrites = 0 /\ memo = EmptyMemo)

\* a decided call past the target has returned 0.0
C2_Witness ==
    /\ status = "done"
    /\ call.b > call.target
    /\ call.a < call.target
    /\ ret = Zero

\* C3: with capping enabled, the bounds update_all clamps with satisfy
\* lower < upper: the interval is neither a single point nor inverted.
C3_IntervalProper ==
    (Passed /\ cfg.cap_on) => Lt(ev.loc.pmin, ev.loc.pmax)

\* C4, as claimed: with capping enabled the per-frame probability passed to
\* match_win_prob lies within the configured [pmin, pmax].
C4_WithinConfigured ==
    (Passed /\ cfg.cap_on) =>
        (Le(cfg.pmin, ev.loc.p_frame) /\ Le(ev.loc.p_frame, cfg.pmax))

\* pmin bounded into [0, 0.5] and pmax into [0.5, 1], written out
BoundedPmin == IF Lt(cfg.pmin, Zero) THEN Zero
               ELSE IF Gt(cfg.pmin, Half) THEN Half ELSE cfg.pmin
BoundedPmax == IF Lt(cfg.pmax, Half) THEN Half
               ELSE IF Gt(cfg.pmax, One) THEN One ELSE cfg.pmax

\* C4, amended: with capping enabled the per-frame probability passed to
\* match_win_prob lies between pmin bounded into [0, 0.5] and pmax bounded
\* into [0.5, 1]; it lies within the configured [pmin, pmax] whenever
\* pmin <= 0.5 <= pmax.
C4_WithinEffective ==
    (Passed /\ cfg.cap_on) =>
        /\ Le(BoundedPmin, ev.loc.p_frame)
        /\ Le(ev.loc.p_frame, BoundedPmax)
        /\ (Le(cfg.pmin, Half) /\ Le(Half, cfg.pmax)) =>
              (Le(cfg.pmin, ev.loc.p_frame) /\ Le(ev.loc.p_frame, cfg.pmax))

\* the cap was active: the shrunk probability lay above pmax and was cut
C4_Witness ==
    /\ Passed
    /\ cfg.cap_on
    /\ Le(cfg.pmin, Half)
    /\ Le(Half, cfg.pmax)
    /\ Lt(cfg.pmax, One)
    /\ ev.loc.p_frame = cfg.pmax
    /\ Gt(ev.loc.p_frame_raw, cfg.pmax)

\* an entry update_all reads that is filled with something float() rejects
Unparseable(e) ==
    \E f \in Fields \ BookFields : Strip(e[f]) # "" /\ Strip(e[f]) \notin DOMAIN Literal

MissingRequired(e) == \E f \in RequiredFields : Strip(e[f]) = ""

\* C5: after Update the five outputs are all-or-nothing.  With a required
\* field empty or an entered field unparseable, all five outputs and the value
\* text are blank and the hint prompts; otherwise all five are set from one
\* evaluation.  Update never lets an exception escape.
C5_AllOrNothing ==
    Updated =>
        /\ ev.exc = "none"
        /\ IF MissingRequired(entries) \/ Unparseable(entries)
           THEN out = BlankOut /\ value_txt = Blank /\ hint = HintPrompt
           ELSE /\ ev.loc.called
                /\ out = Outputs(ev.loc.p_frame, ev.loc.p_match)
                /\ \A k \in DOMAIN out : out[k] # Blank

\* C6: every top-level call returns what the direct recurrence without a memo
\* returns, in any sequence of calls, and every top-level call starts from an
\* empty memo.
C6_MemoEqualsDirect ==
    /\ [](status = "done" =>
            ret = DirectRecurrence(call.p, call.a, call.b, call.target))
    /\ [][(status # "running" /\ status' = "running") => memo' = EmptyMemo]_vars

\* a call that was answered partly from the memo
C6_Witness ==
    /\ status = "done"
    /\ nhits > 0
    /\ nwrites > 1
    /\ Gt(call.p, Zero)
    /\ Lt(call.p, One)

\* C7: for fixed a, b and target, match_win_prob is non-decreasing in p on
\* [0, 1], and its result lies in [0, 1].
C7_Monotone ==
    fres # NoRes =>
        /\ Le(Zero, fres[1]) /\ Le(fres[1], One)
        /\ Le(fargs.p, fargs.q) => Le(fres[1], fres[2])

\* C8: from a level score a = b < target, match_win_prob(0.5, a, a, target)
\* is 0.5 and match_win_prob(p, a, a, target) > 0.5 whenever p > 0.5.
C8_LevelScoreFavourite ==
    (fres # NoRes /\ fargs.a = fargs.b /\ fargs.a < fargs.target) =>
        /\ fargs.p = Half => fres[1] = Half
        /\ Gt(fargs.p, Half) => Gt(fres[1], Half)

\* a race of more than one frame from 0-0 with p > 0.5: the match
\* probability exceeds the frame probability
C8_Witness ==
    /\ fres # NoRes
    /\ fargs.a = 0 /\ fargs.b = 0 /\ fargs.target = 2
    /\ Gt(fargs.p, Half)
    /\ Gt(fres[1], fargs.p)

\* C9: with the shrink factor at 0 the per-frame probability update_all
\* computes is exactly 0.5, capped or not, for every pmin and pmax.
C9_ZeroShrinkIsHalf ==
    (Passed /\ cfg.lambda_shrink = Zero) => ev.loc.p_frame = Half

\* shrink 0 on a raw probability away from 0.5, under a cap with pmin > 0.5
C9_Witness ==
    /\ Passed
    /\ cfg.lambda_shrink = Zero
    /\ cfg.cap_on
    /\ Gt(cfg.pmin, Half)
    /\ Gt(ev.loc.p_frame_raw, Half)
    /\ ev.loc.p_frame = Half

FrameSum(fr) == fr.a + fr.b

\* C10: match_win_prob terminates: every recursive call has a strictly
\* larger a+b than its caller, no call made from a non-terminal state has
\* a+b above 2*target-1, the memo holds only keys with a < target and
\* b < target, at most target^2 of them, and a running call finishes.
C10_Terminates ==
    /\ [](\A i \in 2 .. Len(stack) :
            /\ FrameSum(stack[i]) > FrameSum(stack[i - 1])
            /\ FrameSum(stack[i]) <= 2 * call.target - 1)
    /\ [](/\ \A k \in DOMAIN memo : k[1] < call.target /\ k[2] < call.target
          /\ Cardinality(DOMAIN memo) <= call.target * call.target)
    /\ ((status = "running") ~> (status = "done"))

\* a race from 0-0 that filled the whole table
C10_Witness ==
    /\ status = "done"
    /\ call.a = 0 /\ call.b = 0
    /\ call.target > 1
    /\ Cardinality(DOMAIN memo) = call.target * call.target

\* x + y and x * y without rounding
ExactAdd(x, y) ==
    LET e0 == IF x[2] < y[2] THEN x[2] ELSE y[2]
    IN  Norm(x[1] * 2^(x[2] - e0) + y[1] * 2^(y[2] - e0), e0)
ExactMul(x, y) == Norm(x[1] * y[1], x[2] + y[2])

FAbs(x) == <<Abs(x[1]), x[2]>>

WeightKeys == {"pot", "st", "b50", "b100", "hb", "pts", "shots", "tot"}

NonNegative(w) == \A k \in WeightKeys : Ge(w[k], Zero)

\* beta * 3 * (sum of the eight weights) as a real number
ExactBound(w, beta) ==
    ExactMul(ExactMul(beta, C_3),
        ExactAdd(ExactAdd(ExactAdd(ExactAdd(ExactAdd(ExactAdd(ExactAdd(
            w.pot, w.st), w.b50), w.b100), w.hb), w.pts), w.shots), w.tot))

\* beta * (w_pot*3 + ... + w_tot*3) in floating point, the products added
\* left to right
RoundedBound(w, beta) ==
    FMul(beta, WeightedSum(w, [k \in WeightKeys |-> C_3]))

BoostEvaluated == fres # NoRes /\ fargs.fn = "live_boost"

\* each z-score in [-3, 3] and w_rel in [0, 1]
ClampsHold ==
    /\ \E zs \in {ZScores(fargs.s, fargs.sd)} :
          \A k \in WeightKeys : Ge(zs[k], Neg(C_3)) /\ Le(zs[k], C_3)
    /\ \E w_rel \in {Reliability(fargs.s.shotsA, fargs.s.shotsB, fargs.k_shots)} :
          Ge(w_rel, Zero) /\ Le(w_rel, One)

\* C11, as claimed: for non-negative weights the magnitude of live_boost is
\* at most beta * 3 * (sum of the eight weights), each z-score lies in
\* [-3, 3] also for a zero or negative standard deviation, and w_rel lies in
\* [0, 1] also for k_shots = 0.
C11_BoundedAsClaimed ==
    (BoostEvaluated /\ NonNegative(fargs.w) /\ Ge(fargs.beta, Zero)) =>
        /\ ClampsHold
        /\ Le(FAbs(fres), ExactBound(fargs.w, fargs.beta))

\* C11, amended: for non-negative weights and beta >= 0 the magnitude of
\* live_boost is at most the floating-point value of
\* beta * (w_pot*3 + ... + w_tot*3), the products added in the order of
\* lines 66-73; each z-score lies in [-3, 3] also for a zero or negative
\* standard deviation, and w_rel lies in [0, 1] also for k_shots = 0.
C11_BoundedRounded ==
    (BoostEvaluated /\ NonNegative(fargs.w) /\ Ge(fargs.beta, Zero)) =>
        /\ ClampsHold
        /\ Le(FAbs(fres), RoundedBound(fargs.w, fargs.beta))

\* zero deviations and k_shots = 0: the pot z-score is clamped at 3, w_rel
\* is 1 and the boost reaches its bound
C11_Witness ==
    /\ BoostEvaluated
    /\ fargs.k_shots = 0
    /\ Le(fargs.sd.pot, Zero)
    /\ ZScores(fargs.s, fargs.sd).pot = C_3
    /\ Reliability(fargs.s.shotsA, fargs.s.shotsB, fargs.k_shots) = One
    /\ Gt(fres, Zero)
    /\ fres = RoundedBound(fargs.w, fargs.beta)

=============================================================================
